---- MODULE Spec2Model ----
(***************************************************************************)
(* A model of utils/gpx.py of healthTools: the two GPX converters,         *)
(* convert_gpx_to_rkjson and convert_gpx_to_geojson, run on one parsed     *)
(* GPX document.                                                           *)
(*                                                                         *)
(* The document is the part of the lxml tree the XPath queries of the      *)
(* code read:                                                              *)
(*   meta  the time elements under metadata, in document order             *)
(*   wpt   the time elements that are neither under metadata nor under a   *)
(*         track point and precede the track (a waypoint's time)           *)
(*   name  the name elements under trk                                     *)
(*   pts   the trkpt elements under trk/trkseg, in document order, each    *)
(*         with its lat and lon attributes and its ele and time children   *)
(* Document order is metadata, waypoints, track, as the GPX 1.1 schema     *)
(* orders them.  A time text is a wall clock reading (milliseconds since   *)
(* 1970-01-01T00:00:00 on that clock) with its UTC offset; a decimal text  *)
(* is a sign, a whole part and three decimals.                             *)
(***************************************************************************)
EXTENDS Integers, Sequences, FiniteSets, TLC

VARIABLES doc, additional_data, tzlocal,
          rk_pc, rk_jdata, rk_start_time, rk_i, rk_error,
          geo_pc, geo_jdata, geo_feature, geo_i, geo_error

vars == <<doc, additional_data, tzlocal,
          rk_pc, rk_jdata, rk_start_time, rk_i, rk_error,
          geo_pc, geo_jdata, geo_feature, geo_i, geo_error>>

rk_vars == <<rk_pc, rk_jdata, rk_start_time, rk_i, rk_error>>
geo_vars == <<geo_pc, geo_jdata, geo_feature, geo_i, geo_error>>
input_vars == <<doc, additional_data, tzlocal>>

(***************************************************************************)
(* Bounds of the model.                                                    *)
(***************************************************************************)
MaxPoints == 2

(***************************************************************************)
(* The keys of the output dictionaries.                                    *)
(***************************************************************************)
KEY_TYPE == "type"
KEY_EQUIPMENT == "equipment"
KEY_NOTES == "notes"
KEY_PATH == "path"
KEY_STARTTIME == "start_time"
KEY_LAT == "latitude"
KEY_LON == "longitude"
KEY_TIMESTAMP == "timestamp"
KEY_ALT == "altitude"
KEY_FB == "post_to_facebook"
KEY_TWIT == "post_to_twitter"
KEY_FEATURES == "features"
KEY_NAME == "name"
KEY_PROP == "properties"
KEY_TIME == "time"
KEY_GEO == "geometry"
KEY_COORDS == "coordinates"

DEFAULT_DATA ==
    (KEY_TYPE :> "Running") @@ (KEY_EQUIPMENT :> "None") @@ (KEY_NOTES :> "")
    @@ (KEY_FB :> FALSE) @@ (KEY_TWIT :> FALSE)

(***************************************************************************)
(* Python values.                                                          *)
(***************************************************************************)
None == [none |-> TRUE]
EmptyDict == [k \in {} |-> TRUE]
NoError == [type |-> "", at |-> ""]

\* d[k] = v on a dict
SetItem(d, k, v) == [x \in DOMAIN d \cup {k} |-> IF x = k THEN v ELSE d[x]]

(***************************************************************************)
(* dateutil and datetime.                                                  *)
(***************************************************************************)
MsPerSecond == 1000
SecondsPerDay == 86400

\* dateutil.parser.parse of a time text with a UTC offset: an aware datetime,
\* kept as its UTC instant (ms) and its offset (ms).
parse(text) == [utc |-> text.wall - text.off, off |-> text.off]

\* datetime.astimezone(tz): the same instant on another clock.
astimezone(dt, off) == [utc |-> dt.utc, off |-> off]

\* the operands of the subtraction swapped
Subtract_Swapped(a, b) == b.utc - a.utc

\* (a - b) of two aware datetimes, as a timedelta in ms.
Subtract(a, b) == a.utc - b.utc

\* int() taken for a floor
IntTotalSeconds_Floor(ms) == ms \div MsPerSecond

\* int(timedelta.total_seconds()): int() of a float truncates toward zero.
IntTotalSeconds(ms) ==
    IF ms >= 0 THEN ms \div MsPerSecond ELSE -((-ms) \div MsPerSecond)

WeekdayAbbr == <<"Sun", "Mon", "Tue", "Wed", "Thu", "Fri", "Sat">>
MonthAbbr == <<"Jan", "Feb", "Mar", "Apr", "May", "Jun",
               "Jul", "Aug", "Sep", "Oct", "Nov", "Dec">>

\* The proleptic Gregorian date of a day number (days since 1970-01-01).
CivilFromDays(days) ==
    LET z == days + 719468
        era == z \div 146097
        doe == z - era * 146097
        yoe == (doe - doe \div 1460 + doe \div 36524 - doe \div 146096) \div 365
        doy == doe - (365 * yoe + yoe \div 4 - yoe \div 100)
        mp == (5 * doy + 2) \div 153
        d == doy - (153 * mp + 2) \div 5 + 1
        m == IF mp < 10 THEN mp + 3 ELSE mp - 9
        y == yoe + era * 400 + (IF m <= 2 THEN 1 ELSE 0)
    IN  [year |-> y, month |-> m, day |-> d]

\* dt.strftime('%a, %d %b %Y %H:%M:%S'): the fields of the wall clock of dt;
\* the fraction of the second and the offset are not printed.
strftime(dt) ==
    LET secs == (dt.utc + dt.off) \div MsPerSecond
        days == secs \div SecondsPerDay
        sod == secs % SecondsPerDay
        date == CivilFromDays(days)
    IN  <<WeekdayAbbr[((days + 4) % 7) + 1], date.day, MonthAbbr[date.month],
          date.year, sod \div 3600, (sod % 3600) \div 60, sod % 60>>

\* float(text) of a decimal text, in thousandths.
float(text) == text.sign * (text.whole * 1000 + text.frac)

(***************************************************************************)
(* The GPX documents.                                                      *)
(***************************************************************************)
T_0000 == [wall |-> 0, off |-> 0]
T_0500 == [wall |-> 500, off |-> 0]
T_1000 == [wall |-> 1000, off |-> 0]
T_2000 == [wall |-> 3602000, off |-> 3600000]
T_2500 == [wall |-> -3597500, off |-> -3600000]

MetaTimes == {<<>>, <<T_1000>>, <<T_2000>>, <<T_1000, T_2000>>}
WptTimes == {<<>>, <<T_0000>>}
TrkNames == {<<>>, <<"Morning Run">>}
PointTimes == {<<>>, <<T_0500>>, <<T_2500>>}
\* The lat and lon attributes and the ele children of a track point.
PointShapes ==
    {[lat |-> [sign |-> 1, whole |-> 45, frac |-> 0],
      lon |-> [sign |-> -1, whole |-> 122, frac |-> 0],
      ele |-> <<[sign |-> 1, whole |-> 10, frac |-> 0]>>],
     [lat |-> [sign |-> 1, whole |-> 45, frac |-> 1],
      lon |-> [sign |-> -1, whole |-> 122, frac |-> 1],
      ele |-> <<[sign |-> 1, whole |-> 12, frac |-> 500]>>],
     [lat |-> [sign |-> 1, whole |-> 45, frac |-> 1],
      lon |-> [sign |-> -1, whole |-> 122, frac |-> 0],
      ele |-> <<>>]}

TrackPoints ==
    {[lat |-> c.lat, lon |-> c.lon, ele |-> c.ele, time |-> t] :
        c \in PointShapes, t \in PointTimes}

SeqsUpTo(S, n) == UNION {[1..k -> S] : k \in 0..n}

Documents ==
    {[meta |-> m, wpt |-> w, name |-> nm, pts |-> p] :
        m \in MetaTimes, w \in WptTimes, nm \in TrkNames,
        p \in SeqsUpTo(TrackPoints, MaxPoints)}

\* The additional_data mappings a caller passes.
Overrides ==
    {EmptyDict,
     (KEY_TYPE :> "Cycling") @@ ("total_distance" :> 5000),
     (KEY_STARTTIME :> <<"Mon", 1, "Jan", 2001, 0, 0, 0>>) @@ (KEY_PATH :> <<>>)
        @@ (KEY_NOTES :> "hilly") @@ (KEY_FB :> TRUE)}

LocalOffsets == {0, -18000000}

(***************************************************************************)
(* The XPath queries.                                                      *)
(***************************************************************************)
RECURSIVE PointTimeElements(_)
PointTimeElements(pts) ==
    IF pts = <<>> THEN <<>>
    ELSE pts[1].time \o PointTimeElements(Tail(pts))

\* tree.xpath("//ns:metadata//ns:time")
XPathMetadataTime(d) == d.meta

\* tree.xpath("//ns:time"): every time element, in document order
XPathTime(d) == d.meta \o d.wpt \o PointTimeElements(d.pts)

\* tree.xpath("//ns:trk//ns:name")
XPathTrkName(d) == d.name

\* tree.xpath("//ns:trk//ns:trkseg//ns:trkpt")
XPathTrkpt(d) == d.pts

(***************************************************************************)
(* enrich_data                                                             *)
(***************************************************************************)
enrich_data(jdata, additional, defaults) ==
    [k \in DOMAIN jdata \cup DOMAIN additional \cup DOMAIN defaults |->
        IF k \in DOMAIN jdata THEN jdata[k]
        ELSE IF k \in DOMAIN additional THEN additional[k]
        ELSE defaults[k]]

(***************************************************************************)
(* convert_gpx_to_rkjson                                                   *)
(***************************************************************************)
\* the metadata query skipped: the first time of the waypoints and the track
RkResolveStartTime_NoMetadata(d) ==
    LET first_time == d.wpt \o PointTimeElements(d.pts) \o d.meta
    IN  IF Len(first_time) > 0 THEN parse(first_time[1]) ELSE None

\* the fallback taking the last time element of the document
RkResolveStartTime_LastTime(d) ==
    LET metadata_time == XPathMetadataTime(d)
        first_time == XPathTime(d)
    IN  IF Len(metadata_time) > 0 THEN parse(metadata_time[1])
        ELSE IF Len(first_time) > 0 THEN parse(first_time[Len(first_time)])
        ELSE None

\* The start time of lines 83-92: None when the document has no time element.
RkResolveStartTime(d) ==
    LET metadata_time == XPathMetadataTime(d)
        first_time == XPathTime(d)
    IN  IF Len(metadata_time) > 0 THEN parse(metadata_time[1])
        ELSE IF Len(first_time) > 0 THEN parse(first_time[1])
        ELSE None

\* One pass of the loop body of lines 97-108: the dict of a track point.
RkPathPoint(point, start) ==
    LET p0 == (KEY_LAT :> float(point.lat)) @@ (KEY_LON :> float(point.lon))
              @@ (KEY_TYPE :> "gps")
        p1 == IF point.ele = <<>> THEN p0
              ELSE SetItem(p0, KEY_ALT, float(point.ele[Len(point.ele)]))
    IN  IF point.time = <<>> THEN p1
        ELSE SetItem(p1, KEY_TIMESTAMP,
                 IntTotalSeconds(Subtract(parse(point.time[Len(point.time)]), start)))

RkIdle == rk_pc \in {"idle", "done", "raised"}
GeoIdle == geo_pc \in {"idle", "done", "raised"}

\* lines 78-81: the call, up to the parsed tree
RkCall ==
    /\ rk_pc = "idle"
    /\ GeoIdle
    /\ rk_jdata' = SetItem(EmptyDict, KEY_PATH, <<>>)
    /\ rk_pc' = "start"
    /\ UNCHANGED <<rk_start_time, rk_i, rk_error, geo_vars, input_vars>>

\* lines 83-94: the start time; None.astimezone raises AttributeError
RkStartTime ==
    /\ rk_pc = "start"
    /\ LET st == RkResolveStartTime(doc)
       IN  /\ rk_start_time' = st
           /\ IF st = None
              THEN /\ rk_pc' = "raised"
                   /\ rk_error' = [type |-> "AttributeError", at |-> "start_time"]
                   /\ UNCHANGED <<rk_jdata, rk_i>>
              ELSE /\ rk_jdata' = SetItem(rk_jdata, KEY_STARTTIME,
                                          strftime(astimezone(st, tzlocal)))
                   /\ rk_pc' = "loop"
                   /\ rk_i' = 1
                   /\ UNCHANGED rk_error
    /\ UNCHANGED <<geo_vars, input_vars>>

\* lines 96-112: one iteration over the track points, enrich_data included
RkPoint ==
    /\ rk_pc = "loop"
    /\ rk_i <= Len(XPathTrkpt(doc))
    /\ LET path_point == RkPathPoint(XPathTrkpt(doc)[rk_i], rk_start_time)
           appended == SetItem(rk_jdata, KEY_PATH,
                               Append(rk_jdata[KEY_PATH], path_point))
       IN  rk_jdata' = enrich_data(appended, additional_data, DEFAULT_DATA)
    /\ rk_i' = rk_i + 1
    /\ UNCHANGED <<rk_pc, rk_start_time, rk_error, geo_vars, input_vars>>

\* line 114
RkReturn ==
    /\ rk_pc = "loop"
    /\ rk_i > Len(XPathTrkpt(doc))
    /\ rk_pc' = "done"
    /\ UNCHANGED <<rk_jdata, rk_start_time, rk_i, rk_error, geo_vars, input_vars>>

(***************************************************************************)
(* convert_gpx_to_geojson                                                  *)
(***************************************************************************)
\* the pair in latitude, longitude order
GeoPathPoint_LatLon(point) == <<float(point.lat), float(point.lon)>>

\* lines 135-137
GeoPathPoint(point) == <<float(point.lon), float(point.lat)>>

\* the start time looked up before the track name
GeoHeaderError_TimeFirst(d) ==
    IF Len(XPathMetadataTime(d)) = 0
    THEN [type |-> "IndexError", at |-> "metadata_time"]
    ELSE IF Len(XPathTrkName(d)) = 0 THEN [type |-> "IndexError", at |-> "trk_name"]
    ELSE NoError

\* The exception of lines 126-127, NoError when both lookups succeed: [0] of
\* an empty XPath result raises IndexError.
GeoHeaderError(d) ==
    IF Len(XPathTrkName(d)) = 0 THEN [type |-> "IndexError", at |-> "trk_name"]
    ELSE IF Len(XPathMetadataTime(d)) = 0
         THEN [type |-> "IndexError", at |-> "metadata_time"]
    ELSE NoError

\* lines 117-124
GeoCall ==
    /\ geo_pc = "idle"
    /\ RkIdle
    /\ geo_jdata' = (KEY_TYPE :> "FeatureCollection") @@ (KEY_FEATURES :> <<>>)
    /\ geo_feature' = (KEY_TYPE :> "Feature") @@ (KEY_PROP :> EmptyDict)
    /\ geo_pc' = "header"
    /\ UNCHANGED <<geo_i, geo_error, rk_vars, input_vars>>

\* lines 126-132: name, start time, the empty geometry
GeoHeader ==
    /\ geo_pc = "header"
    /\ LET err == GeoHeaderError(doc)
       IN  IF err # NoError
           THEN /\ geo_pc' = "raised"
                /\ geo_error' = err
                /\ UNCHANGED <<geo_feature, geo_i>>
           ELSE LET start_time == parse(XPathMetadataTime(doc)[1])
                    prop == (KEY_NAME :> XPathTrkName(doc)[1])
                            @@ (KEY_TIME :> strftime(astimezone(start_time, tzlocal)))
                    geometry == (KEY_TYPE :> "LineString") @@ (KEY_COORDS :> <<>>)
                IN  /\ geo_feature' = SetItem(SetItem(geo_feature, KEY_PROP, prop),
                                              KEY_GEO, geometry)
                    /\ geo_pc' = "loop"
                    /\ geo_i' = 1
                    /\ UNCHANGED geo_error
    /\ UNCHANGED <<geo_jdata, rk_vars, input_vars>>

\* lines 134-138
GeoPoint ==
    /\ geo_pc = "loop"
    /\ geo_i <= Len(XPathTrkpt(doc))
    /\ LET geometry == geo_feature[KEY_GEO]
           coords == Append(geometry[KEY_COORDS], GeoPathPoint(XPathTrkpt(doc)[geo_i]))
       IN  geo_feature' = SetItem(geo_feature, KEY_GEO,
                                  SetItem(geometry, KEY_COORDS, coords))
    /\ geo_i' = geo_i + 1
    /\ UNCHANGED <<geo_pc, geo_jdata, geo_error, rk_vars, input_vars>>

\* lines 140-142
GeoReturn ==
    /\ geo_pc = "loop"
    /\ geo_i > Len(XPathTrkpt(doc))
    /\ geo_jdata' = SetItem(geo_jdata, KEY_FEATURES,
                            Append(geo_jdata[KEY_FEATURES], geo_feature))
    /\ geo_pc' = "done"
    /\ UNCHANGED <<geo_feature, geo_i, geo_error, rk_vars, input_vars>>

(***************************************************************************)
(* The specification.                                                      *)
(***************************************************************************)
Init ==
    /\ doc \in Documents
    /\ additional_data \in Overrides
    /\ tzlocal \in LocalOffsets
    /\ rk_pc = "idle"
    /\ rk_jdata = EmptyDict
    /\ rk_start_time = None
    /\ rk_i = 0
    /\ rk_error = NoError
    /\ geo_pc = "idle"
    /\ geo_jdata = EmptyDict
    /\ geo_feature = EmptyDict
    /\ geo_i = 0
    /\ geo_error = NoError

Next ==
    \/ RkCall
    \/ RkStartTime
    \/ RkPoint
    \/ RkReturn
    \/ GeoCall
    \/ GeoHeader
    \/ GeoPoint
    \/ GeoReturn

Spec == Init /\ [][Next]_vars

(***************************************************************************)
(* What the properties below read of the document, stated on the texts     *)
(* themselves.                                                             *)
(***************************************************************************)
Instant(text) == text.wall - text.off
Thousandths(text) ==
    IF text.sign = 1 THEN text.whole * 1000 + text.frac
    ELSE 0 - (text.whole * 1000 + text.frac)
TowardZero(ms) == IF ms >= 0 THEN ms \div 1000 ELSE 0 - ((0 - ms) \div 1000)
LocalString(instant) == strftime([utc |-> instant, off |-> tzlocal])

NPoints == Len(doc.pts)
Timed == {i \in 1..NPoints : doc.pts[i].time # <<>>}
PointInstant(i) == Instant(doc.pts[i].time[1])
FirstTimed == CHOOSE i \in Timed : \A j \in Timed : i <= j
HasAnyTime == doc.meta # <<>> \/ doc.wpt # <<>> \/ Timed # {}
RkStarted == rk_pc \in {"loop", "done"}
RkPath == rk_jdata[KEY_PATH]
PointTimesIncreasing == \A i, j \in Timed : i < j => PointInstant(i) < PointInstant(j)
PointTimesNonDecreasing == \A i, j \in Timed : i < j => PointInstant(i) <= PointInstant(j)
TimestampsNonDecreasing ==
    \A i, j \in Timed :
        (i < j /\ j <= Len(RkPath)) => RkPath[i][KEY_TIMESTAMP] <= RkPath[j][KEY_TIMESTAMP]
TimestampsNonNegative ==
    \A i \in Timed : i <= Len(RkPath) => RkPath[i][KEY_TIMESTAMP] >= 0

\* C1: whenever the document has a time element under metadata, the start
\* time of convert_gpx_to_rkjson is the first metadata time (whatever times
\* the track points carry) and start_time is that instant on the local clock,
\* formatted; without a metadata time it is the first time element of the
\* document.
C1_StartTimeFromMetadata ==
    RkStarted =>
        IF doc.meta # <<>>
        THEN /\ rk_start_time.utc = Instant(doc.meta[1])
             /\ rk_jdata[KEY_STARTTIME] = LocalString(Instant(doc.meta[1]))
        ELSE /\ rk_start_time.utc = Instant((doc.wpt \o PointTimeElements(doc.pts))[1])
             /\ rk_jdata[KEY_STARTTIME] = LocalString(rk_start_time.utc)

\* C1 witness: a finished conversion of a document with two metadata times and
\* a first track point carrying another time, five hours west of UTC:
\* 1970-01-01T00:00:01Z reads Wed, 31 Dec 1969 19:00:01.
C1_Witness ==
    /\ rk_pc = "done"
    /\ doc.meta = <<T_1000, T_2000>>
    /\ NPoints = 2
    /\ doc.pts[1].time = <<T_0500>>
    /\ tzlocal = -18000000
    /\ rk_jdata[KEY_STARTTIME] = <<"Wed", 31, "Dec", 1969, 19, 0, 1>>

\* C2 as stated: without a metadata time and with a timed track point, the
\* start time is the time of the first track point.
C2_Original ==
    (RkStarted /\ doc.meta = <<>> /\ Timed # {}) =>
        /\ doc.pts[1].time # <<>>
        /\ rk_start_time.utc = PointInstant(1)

\* C2 amended: without a metadata time and with a timed track point, the
\* start time (of start_time and of every timestamp) is the first time
\* element of the document: the time of the first track point that has a
\* time, unless a time element outside metadata precedes the track, which
\* is then the one used.
C2_FallbackFirstTimeElement ==
    (RkStarted /\ doc.meta = <<>> /\ Timed # {}) =>
        LET expected == IF doc.wpt # <<>> THEN Instant(doc.wpt[1])
                        ELSE PointInstant(FirstTimed)
        IN  /\ rk_start_time.utc = expected
            /\ rk_jdata[KEY_STARTTIME] = LocalString(expected)
            /\ \A i \in Timed :
                   i <= Len(RkPath) =>
                       RkPath[i][KEY_TIMESTAMP] = TowardZero(PointInstant(i) - expected)

\* C2 witness: no metadata and no waypoint time, and two timed points, the
\* second two seconds before the first, which is the start time.
C2_Witness ==
    /\ rk_pc = "done"
    /\ doc.meta = <<>>
    /\ doc.wpt = <<>>
    /\ NPoints = 2
    /\ doc.pts[1].time = <<T_2500>>
    /\ doc.pts[2].time = <<T_0500>>
    /\ RkPath[2][KEY_TIMESTAMP] = -2

\* C3: for a document with a track name on which convert_gpx_to_rkjson
\* returns a record, convert_gpx_to_geojson returns too and its
\* features[0].properties.time equals the record's start_time.
C3_GeoStartTimeAsRunKeeper ==
    (rk_pc = "done" /\ doc.name # <<>> /\ geo_pc \in {"done", "raised"}) =>
        /\ geo_pc = "done"
        /\ geo_jdata[KEY_FEATURES][1][KEY_PROP][KEY_TIME] = rk_jdata[KEY_STARTTIME]

\* C4: in the returned record start_time and path keep their computed
\* values, and every other key of additional_data is present with the
\* caller's value.
C4_EnrichmentNeverOverwrites ==
    rk_pc = "done" =>
        /\ rk_jdata[KEY_STARTTIME] = LocalString(rk_start_time.utc)
        /\ Len(RkPath) = NPoints
        /\ \A k \in DOMAIN additional_data \ {KEY_STARTTIME, KEY_PATH} :
               /\ k \in DOMAIN rk_jdata
               /\ rk_jdata[k] = additional_data[k]

\* C5: every returned record holds the five default keys, each with the
\* caller's value if additional_data has the key and the default otherwise.
C5_DefaultsAlwaysFilled ==
    rk_pc = "done" =>
        \A k \in {KEY_TYPE, KEY_EQUIPMENT, KEY_NOTES, KEY_FB, KEY_TWIT} :
            /\ k \in DOMAIN rk_jdata
            /\ rk_jdata[k] = IF k \in DOMAIN additional_data THEN additional_data[k]
                             ELSE DEFAULT_DATA[k]

\* C6 as stated: when the track point times increase in document order,
\* every timestamp of the path is non-negative and the timestamps do not
\* decrease along the path.
C6_Original ==
    (RkStarted /\ PointTimesIncreasing) =>
        /\ TimestampsNonNegative
        /\ TimestampsNonDecreasing

\* C6 amended: when the track point times do not decrease in document
\* order, the timestamps do not decrease along the path, and every
\* timestamp is non-negative provided the start time is not later than the
\* time of the first timed point.
C6_TimestampsMonotone ==
    (RkStarted /\ PointTimesNonDecreasing) =>
        /\ TimestampsNonDecreasing
        /\ (Timed # {} /\ rk_start_time.utc <= PointInstant(FirstTimed))
               => TimestampsNonNegative

\* C6 witness: two timed points with increasing times after a start time
\* that is not later than the first, with different timestamps.
C6_Witness ==
    /\ rk_pc = "done"
    /\ NPoints = 2
    /\ Timed = {1, 2}
    /\ PointInstant(1) < PointInstant(2)
    /\ rk_start_time.utc <= PointInstant(1)
    /\ RkPath[1][KEY_TIMESTAMP] = 0
    /\ RkPath[2][KEY_TIMESTAMP] = 2

\* C7: the result of convert_gpx_to_geojson has exactly one feature, a
\* LineString whose coordinates hold one entry per trkpt, in document order,
\* each the pair [longitude, latitude] of the point and nothing else.
C7_GeoCoordinates ==
    geo_pc = "done" =>
        /\ Len(geo_jdata[KEY_FEATURES]) = 1
        /\ LET geometry == geo_jdata[KEY_FEATURES][1][KEY_GEO]
               coords == geometry[KEY_COORDS]
           IN  /\ geometry[KEY_TYPE] = "LineString"
               /\ Len(coords) = NPoints
               /\ \A i \in 1..NPoints :
                      coords[i] = <<Thousandths(doc.pts[i].lon), Thousandths(doc.pts[i].lat)>>

\* C7 witness: a returned collection of two different points, the first
\* with ele and time children, the second with neither.
C7_Witness ==
    /\ geo_pc = "done"
    /\ NPoints = 2
    /\ doc.pts[1].ele # <<>> /\ doc.pts[1].time # <<>>
    /\ doc.pts[2].ele = <<>> /\ doc.pts[2].time = <<>>
    /\ geo_jdata[KEY_FEATURES][1][KEY_GEO][KEY_COORDS]
         = << <<-122000, 45000>>, <<-122000, 45001>> >>

C9_MissingStartTimeError ==
    (~HasAnyTime /\ rk_pc \notin {"idle", "start"}) =>
        /\ rk_pc = "raised"
        /\ rk_error.type = "MissingStartTimeError"
        /\ rk_i = 0
        /\ RkPath = <<>>

\* C10 as stated: the timestamp of every timed point is the floor of
\* (point time - start time) in seconds, also when the point time is before
\* the start time.
C10_Original ==
    RkStarted =>
        \A i \in Timed :
            i <= Len(RkPath) =>
                RkPath[i][KEY_TIMESTAMP] = (PointInstant(i) - rk_start_time.utc) \div 1000

\* C10 amended: the timestamp of every timed point is (point time - start
\* time) in seconds truncated toward zero, which is the floor when the point
\* time is not before the start time; a point has a timestamp key only if it
\* has a time child and an altitude key only if it has an ele child.
C10_TimestampTruncated ==
    RkStarted =>
        \A i \in 1..Len(RkPath) :
            LET p == RkPath[i]
                pt == doc.pts[i]
                d == Instant(pt.time[1]) - rk_start_time.utc
            IN  /\ (KEY_TIMESTAMP \in DOMAIN p) <=> (pt.time # <<>>)
                /\ (KEY_ALT \in DOMAIN p) <=> (pt.ele # <<>>)
                /\ pt.time # <<>> =>
                       /\ p[KEY_TIMESTAMP] = TowardZero(d)
                       /\ d >= 0 => p[KEY_TIMESTAMP] = d \div 1000
                /\ pt.ele # <<>> => p[KEY_ALT] = Thousandths(pt.ele[1])

\* C10 witness: a point half a second before the start time (timestamp 0,
\* where the floor is -1), a point one and a half seconds after it, and a
\* point without a time.
C10_Witness ==
    /\ rk_pc = "done"
    /\ doc.meta = <<T_1000>>
    /\ NPoints = 2
    /\ doc.pts[1].time = <<T_0500>>
    /\ doc.pts[2].time = <<T_2500>>
    /\ doc.pts[2].ele = <<>>
    /\ RkPath[1][KEY_TIMESTAMP] = 0
    /\ RkPath[2][KEY_TIMESTAMP] = 1
    /\ KEY_ALT \notin DOMAIN RkPath[2]


====
